---- MODULE Spec2Model ----
(***************************************************************************)
(* Basics.ipynb: the notebook that provisions the Boston crime database.   *)
(* The notebook's code cells are the operations; every SQL statement a     *)
(* cell issues is applied to the state of the database server (types,      *)
(* table, rows, roles, access control lists, memberships).  A statement    *)
(* that raises ends its cell; autocommit keeps what earlier statements     *)
(* did.                                                                    *)
(***************************************************************************)
EXTENDS Integers, Sequences, FiniteSets, TLC

\* ------------------------------------------------------------------ bounds
MaxRows == 2
MaxRuns == 2
MaxUserOps == 1
MaxNumeral == 999

\* ------------------------------------------------------- program constants
FetchLimit == 5

\* --------------------------------------------------------------- CSV file
\* The header line of boston.csv (cell 4's recorded output).
col_headers ==
    <<"incident_number", "offense_code", "description", "date",
      "day_of_the_week", "lat", "long">>

\* The labels of CREATE TYPE day_of_week AS ENUM (...), in order.
DayLabels ==
    <<"Monday", "Tuesday", "Wednesday", "Thursday", "Friday", "Saturday", "Sunday">>

\* The day_of_the_week fields the file's lines carry: a label (that of the
\* recorded first data row) and a string that is no label.
FileDays == {"Sunday", "Funday"}

\* Those an INSERT may carry: the same, and no value at all.
InsertDays == FileDays \cup {""}

\* A data line: the recorded first data row with the incident number and the
\* day varied.
CsvLine(k, d) ==
    <<ToString(k), "619", "LARCENY ALL OTHERS", "2018-09-02", d,
      "42.35779134", "-71.13937053">>

\* The incident numbers the lines carry.
IncidentNumbers == {1, 2}

DataLines == {CsvLine(k, d) : k \in IncidentNumbers, d \in FileDays}
InsertLines == {CsvLine(k, d) : k \in IncidentNumbers, d \in InsertDays}

RECURSIVE SeqsUpTo(_, _)
SeqsUpTo(S, n) ==
    IF n = 0 THEN {<<>>}
    ELSE LET shorter == SeqsUpTo(S, n - 1)
         IN  shorter \cup {Append(q, x) : q \in {p \in shorter : Len(p) = n - 1}, x \in S}

\* boston.csv: the header line, then up to MaxRows data lines.
CsvFiles == {<<col_headers>> \o q : q \in SeqsUpTo(DataLines, MaxRows)}

\* ------------------------------------------------------- server: the state
NULL == "NULL"
PUBLIC == "PUBLIC"
Owner == "postgres"
TablePrivs == {"SELECT", "INSERT", "UPDATE", "DELETE", "TRUNCATE", "REFERENCES", "TRIGGER"}

\* Database crime_db with schemas public and crimes, as cells 2 and 3 left
\* them: the server's defaults for the implicit public role, nothing else.
CleanServer ==
    [types     |-> {},
     table     |-> FALSE,
     rows      |-> <<>>,
     tableAcl  |-> {},
     roles     |-> {Owner},
     login     |-> {Owner},
     member    |-> {},
     dbAcl     |-> {<<PUBLIC, "CONNECT">>, <<PUBLIC, "TEMPORARY">>},
     schemaAcl |-> {<<"public", PUBLIC, "USAGE">>, <<"public", PUBLIC, "CREATE">>}]

Ok == "ok"
Res(s, e) == [srv |-> s, err |-> e]

\* ------------------------------------------------- server: type conversion
\* integer input: the decimal numerals; anything else is rejected.
Numerals == {ToString(n) : n \in 0..MaxNumeral}
IntOf == [f \in Numerals |-> CHOOSE n \in 0..MaxNumeral : ToString(n) = f]
IsInt(f) == f \in Numerals
ParseInt(f) == IntOf[f]

\* day_of_week input: an empty field is NULL, a label is itself.
EnumLabels(s) == UNION {{t.labels[i] : i \in 1..Len(t.labels)} : t \in s.types}
\* IsDay for a column declared VARCHAR instead of day_of_week.
IsDayAnyText(s, f) == TRUE

IsDay(s, f) == f = "" \/ f \in EnumLabels(s)
ParseDay(f) == IF f = "" THEN NULL ELSE f

\* A line's fields go to the table's columns by position.
RowOf(line) ==
    [incident_number |-> ParseInt(line[1]),
     offense_code    |-> ParseInt(line[2]),
     description     |-> line[3],
     date            |-> line[4],
     day_of_the_week |-> ParseDay(line[5]),
     latitude        |-> line[6],
     longitude       |-> line[7]]

Keys(rows) == {rows[i].incident_number : i \in 1..Len(rows)}

\* InsertRow on a table declared without PRIMARY KEY.
InsertRowNoKey(s, rows, line) ==
    IF ~IsInt(line[1]) \/ ~IsInt(line[2]) \/ ~IsDay(s, line[5])
        THEN [rows |-> rows, err |-> "InvalidTextRepresentation"]
    ELSE [rows |-> Append(rows, RowOf(line)), err |-> Ok]

\* One row into boston_crimes: input conversion, then the primary key.
InsertRow(s, rows, line) ==
    IF ~IsInt(line[1]) \/ ~IsInt(line[2]) \/ ~IsDay(s, line[5])
        THEN [rows |-> rows, err |-> "InvalidTextRepresentation"]
    ELSE IF ParseInt(line[1]) \in Keys(rows)
        THEN [rows |-> rows, err |-> "UniqueViolation"]
    ELSE [rows |-> Append(rows, RowOf(line)), err |-> Ok]

\* ----------------------------------------------- server: the statements
\* CREATE TYPE day_of_week AS ENUM ('Monday', ..., 'Sunday');
CreateType(s) ==
    IF \E t \in s.types : t.name = "day_of_week"
        THEN Res(s, "DuplicateObject")
    ELSE Res([s EXCEPT !.types = @ \cup {[name |-> "day_of_week", labels |-> DayLabels]}], Ok)

\* CreateTable written as CREATE TABLE IF NOT EXISTS.
CreateTableIfNotExists(s) ==
    IF s.table
        THEN Res(s, Ok)
    ELSE IF ~\E t \in s.types : t.name = "day_of_week"
        THEN Res(s, "UndefinedObject")
    ELSE Res([s EXCEPT !.table = TRUE, !.rows = <<>>,
                       !.tableAcl = {<<Owner, p>> : p \in TablePrivs}], Ok)

\* CREATE TABLE crimes.boston_crimes (incident_number INTEGER PRIMARY KEY, ...
\* day_of_the_week day_of_week, ...); the owner holds every table privilege.
CreateTable(s) ==
    IF s.table
        THEN Res(s, "DuplicateTable")
    ELSE IF ~\E t \in s.types : t.name = "day_of_week"
        THEN Res(s, "UndefinedObject")
    ELSE Res([s EXCEPT !.table = TRUE, !.rows = <<>>,
                       !.tableAcl = {<<Owner, p>> : p \in TablePrivs}], Ok)

\* The lines of a COPY, one after the other, until one is rejected.
RECURSIVE CopyLines(_, _, _)
CopyLines(s, rows, lines) ==
    IF lines = <<>> THEN [rows |-> rows, err |-> Ok]
    ELSE LET r == InsertRow(s, rows, Head(lines))
         IN  IF r.err # Ok THEN r ELSE CopyLines(s, r.rows, Tail(lines))

\* CopyFrom that keeps the rows that went in before the rejected line.
CopyKeepsPartialRows(s, file) ==
    IF ~s.table
        THEN Res(s, "UndefinedTable")
    ELSE LET r == CopyLines(s, s.rows, Tail(file))
         IN  Res([s EXCEPT !.rows = r.rows], r.err)

\* CopyFrom that takes the line after the header for a second header line.
CopySkipsTwoLines(s, file) ==
    IF ~s.table
        THEN Res(s, "UndefinedTable")
    ELSE LET r == CopyLines(s, s.rows, IF Len(file) > 1 THEN Tail(Tail(file)) ELSE <<>>)
         IN  IF r.err # Ok THEN Res(s, r.err)
             ELSE Res([s EXCEPT !.rows = r.rows], Ok)

\* COPY crimes.boston_crimes FROM STDIN WITH CSV HEADER; the first line is
\* skipped, and a rejected line undoes the whole statement.
CopyFrom(s, file) ==
    IF ~s.table
        THEN Res(s, "UndefinedTable")
    ELSE LET r == CopyLines(s, s.rows, Tail(file))
         IN  IF r.err # Ok THEN Res(s, r.err)
             ELSE Res([s EXCEPT !.rows = r.rows], Ok)

\* SELECT * FROM crimes.boston_crimes LIMIT 5; then fetchall().
SelectLimit(s) ==
    IF ~s.table THEN [rows |-> <<>>, err |-> "UndefinedTable"]
    ELSE [rows |-> SubSeq(s.rows, 1, IF Len(s.rows) < FetchLimit THEN Len(s.rows) ELSE FetchLimit),
          err |-> Ok]

\* REVOKE ALL ON SCHEMA public FROM public;
RevokeSchemaPublic(s) ==
    Res([s EXCEPT !.schemaAcl = {a \in @ : ~(a[1] = "public" /\ a[2] = PUBLIC)}], Ok)

\* RevokeDatabasePublic that names the schema again instead of the database.
RevokeSchemaTwice(s) ==
    Res([s EXCEPT !.schemaAcl = {a \in @ : ~(a[1] = "public" /\ a[2] = PUBLIC)}], Ok)

\* REVOKE ALL ON DATABASE crime_db FROM public;
RevokeDatabasePublic(s) ==
    Res([s EXCEPT !.dbAcl = {a \in @ : a[1] # PUBLIC}], Ok)

\* CREATE GROUP g NOLOGIN;
CreateGroup(s, g) ==
    IF g \in s.roles THEN Res(s, "DuplicateObject")
    ELSE Res([s EXCEPT !.roles = @ \cup {g}], Ok)

\* GRANT CONNECT ON DATABASE crime_db TO g;
GrantConnect(s, g) ==
    IF g \notin s.roles THEN Res(s, "UndefinedObject")
    ELSE Res([s EXCEPT !.dbAcl = @ \cup {<<g, "CONNECT">>}], Ok)

\* GRANT USAGE ON SCHEMA crimes TO g;
GrantUsage(s, g) ==
    IF g \notin s.roles THEN Res(s, "UndefinedObject")
    ELSE Res([s EXCEPT !.schemaAcl = @ \cup {<<"crimes", g, "USAGE">>}], Ok)

\* GrantOnAllTables written as GRANT ALL ON ALL TABLES IN SCHEMA crimes TO g.
GrantAllOnAllTables(s, privs, g) ==
    IF g \notin s.roles THEN Res(s, "UndefinedObject")
    ELSE IF ~s.table THEN Res(s, Ok)
    ELSE Res([s EXCEPT !.tableAcl = @ \cup {<<g, p>> : p \in TablePrivs}], Ok)

\* GRANT privs ON ALL TABLES IN SCHEMA crimes TO g; the tables that exist now.
GrantOnAllTables(s, privs, g) ==
    IF g \notin s.roles THEN Res(s, "UndefinedObject")
    ELSE IF ~s.table THEN Res(s, Ok)
    ELSE Res([s EXCEPT !.tableAcl = @ \cup {<<g, p>> : p \in privs}], Ok)

\* CREATE USER u WITH PASSWORD '...'; a role that may log in.
CreateUser(s, u) ==
    IF u \in s.roles THEN Res(s, "DuplicateObject")
    ELSE Res([s EXCEPT !.roles = @ \cup {u}, !.login = @ \cup {u}], Ok)

\* GrantMembership with the group of the cell's last line in every line.
GrantMembershipReadwrite(s, g, u) ==
    IF g \notin s.roles \/ u \notin s.roles THEN Res(s, "UndefinedObject")
    ELSE Res([s EXCEPT !.member = @ \cup {<<u, "readwrite">>}], Ok)

\* GRANT g TO u;
GrantMembership(s, g, u) ==
    IF g \notin s.roles \/ u \notin s.roles THEN Res(s, "UndefinedObject")
    ELSE Res([s EXCEPT !.member = @ \cup {<<u, g>>}], Ok)

\* SELECT grantee, privilege_type FROM information_schema.table_privileges
\* WHERE grantee = 'readwrite' OR grantee = 'readonly';
TablePrivileges(s) ==
    {a \in s.tableAcl : a[1] = "readwrite" \/ a[1] = "readonly"}

\* ------------------------------------------------------ notebook: the cells
\* Cells with the CREATE TABLE cell run before the CREATE TYPE cell.
CellsTableFirst ==
    << [cell |-> 3,  stmts |-> <<"connect">>],
       [cell |-> 11, stmts |-> <<"create_table">>],
       [cell |-> 10, stmts |-> <<"create_type">>],
       [cell |-> 12, stmts |-> <<"copy">>],
       [cell |-> 13, stmts |-> <<"select_limit">>],
       [cell |-> 14, stmts |-> <<"revoke_schema", "revoke_database">>],
       [cell |-> 15, stmts |-> <<"create_readonly", "create_readwrite",
                                 "connect_readonly", "connect_readwrite",
                                 "usage_readonly", "usage_readwrite",
                                 "tables_readonly", "tables_readwrite">>],
       [cell |-> 16, stmts |-> <<"create_analyst", "member_analyst",
                                 "create_scientist", "member_scientist">>],
       [cell |-> 17, stmts |-> <<"table_privileges">>],
       [cell |-> 18, stmts |-> <<"close">>] >>

\* The code cells that touch the server, by execution count, each with the
\* statements it issues in order.
Cells ==
    << [cell |-> 3,  stmts |-> <<"connect">>],
       [cell |-> 10, stmts |-> <<"create_type">>],
       [cell |-> 11, stmts |-> <<"create_table">>],
       [cell |-> 12, stmts |-> <<"copy">>],
       [cell |-> 13, stmts |-> <<"select_limit">>],
       [cell |-> 14, stmts |-> <<"revoke_schema", "revoke_database">>],
       [cell |-> 15, stmts |-> <<"create_readonly", "create_readwrite",
                                 "connect_readonly", "connect_readwrite",
                                 "usage_readonly", "usage_readwrite",
                                 "tables_readonly", "tables_readwrite">>],
       [cell |-> 16, stmts |-> <<"create_analyst", "member_analyst",
                                 "create_scientist", "member_scientist">>],
       [cell |-> 17, stmts |-> <<"table_privileges">>],
       [cell |-> 18, stmts |-> <<"close">>] >>

NCells == Len(Cells)

\* What a statement works on: the server, the connection object conn, and
\* what the last fetchall() of cells 13 and 17 returned.
Ctx(s, c, f, q) == [srv |-> s, conn |-> c, fetched |-> f, catalog |-> q]
Out(x, e) == [ctx |-> x, err |-> e]
OnServer(x, r) == Out([x EXCEPT !.srv = r.srv], r.err)

\* cursor.execute(...) / cursor.copy_expert(...) of one statement (autocommit:
\* what it does is committed when it returns, what it raises changes nothing).
Execute(stmt, x, file) ==
    IF stmt = "connect" THEN Out([x EXCEPT !.conn = "open"], Ok)
    ELSE IF x.conn # "open" THEN Out(x, "InterfaceError")
    ELSE IF stmt = "close" THEN Out([x EXCEPT !.conn = "closed"], Ok)
    ELSE IF stmt = "create_type" THEN OnServer(x, CreateType(x.srv))
    ELSE IF stmt = "create_table" THEN OnServer(x, CreateTable(x.srv))
    ELSE IF stmt = "copy" THEN OnServer(x, CopyFrom(x.srv, file))
    ELSE IF stmt = "select_limit" THEN
        LET r == SelectLimit(x.srv)
        IN  IF r.err # Ok THEN Out(x, r.err) ELSE Out([x EXCEPT !.fetched = r.rows], Ok)
    ELSE IF stmt = "revoke_schema" THEN OnServer(x, RevokeSchemaPublic(x.srv))
    ELSE IF stmt = "revoke_database" THEN OnServer(x, RevokeDatabasePublic(x.srv))
    ELSE IF stmt = "create_readonly" THEN OnServer(x, CreateGroup(x.srv, "readonly"))
    ELSE IF stmt = "create_readwrite" THEN OnServer(x, CreateGroup(x.srv, "readwrite"))
    ELSE IF stmt = "connect_readonly" THEN OnServer(x, GrantConnect(x.srv, "readonly"))
    ELSE IF stmt = "connect_readwrite" THEN OnServer(x, GrantConnect(x.srv, "readwrite"))
    ELSE IF stmt = "usage_readonly" THEN OnServer(x, GrantUsage(x.srv, "readonly"))
    ELSE IF stmt = "usage_readwrite" THEN OnServer(x, GrantUsage(x.srv, "readwrite"))
    ELSE IF stmt = "tables_readonly"
        THEN OnServer(x, GrantOnAllTables(x.srv, {"SELECT"}, "readonly"))
    ELSE IF stmt = "tables_readwrite"
        THEN OnServer(x, GrantOnAllTables(x.srv, {"SELECT", "INSERT", "DELETE", "UPDATE"}, "readwrite"))
    ELSE IF stmt = "create_analyst" THEN OnServer(x, CreateUser(x.srv, "data_analyst"))
    ELSE IF stmt = "member_analyst" THEN OnServer(x, GrantMembership(x.srv, "readonly", "data_analyst"))
    ELSE IF stmt = "create_scientist" THEN OnServer(x, CreateUser(x.srv, "data_scientist"))
    ELSE IF stmt = "member_scientist" THEN OnServer(x, GrantMembership(x.srv, "readwrite", "data_scientist"))
    ELSE Out([x EXCEPT !.catalog = TablePrivileges(x.srv)], Ok)

\* RunCell with every statement in a try/except of its own: the cell goes on
\* after a statement that raised.
RECURSIVE RunCellThrough(_, _, _, _)
RunCellThrough(stmts, x, file, done) ==
    IF stmts = <<>> THEN [ctx |-> x, done |-> done, err |-> Ok]
    ELSE LET r == Execute(Head(stmts), x, file)
             d == Append(done, [stmt |-> Head(stmts), err |-> r.err])
         IN  RunCellThrough(Tail(stmts), r.ctx, file, d)

\* RunCell with the cell's statements in one transaction: a statement that
\* raises undoes what the statements before it did.
RECURSIVE RunStmts(_, _, _, _)
RunStmts(stmts, x, file, done) ==
    IF stmts = <<>> THEN [ctx |-> x, done |-> done, err |-> Ok]
    ELSE LET r == Execute(Head(stmts), x, file)
             d == Append(done, [stmt |-> Head(stmts), err |-> r.err])
         IN  IF r.err # Ok THEN [ctx |-> r.ctx, done |-> d, err |-> r.err]
             ELSE RunStmts(Tail(stmts), r.ctx, file, d)

RunCellInTransaction(stmts, x, file, done) ==
    LET r == RunStmts(stmts, x, file, done)
    IN  IF r.err # Ok THEN [r EXCEPT !.ctx = [@ EXCEPT !.srv = x.srv]] ELSE r

\* A cell's statements in order; the first one that raises ends the cell.
\* done: the statements executed, each with what it raised.
RECURSIVE RunCell(_, _, _, _)
RunCell(stmts, x, file, done) ==
    IF stmts = <<>> THEN [ctx |-> x, done |-> done, err |-> Ok]
    ELSE LET r == Execute(Head(stmts), x, file)
             d == Append(done, [stmt |-> Head(stmts), err |-> r.err])
         IN  IF r.err # Ok THEN [ctx |-> r.ctx, done |-> d, err |-> r.err]
             ELSE RunCell(Tail(stmts), r.ctx, file, d)

\* ------------------------------------------------ server: access control
\* The roles whose privileges role r exercises: its own, those of the groups
\* it is a member of, and those of the implicit public role.
Groups(s, r) == {g \in s.roles : <<r, g>> \in s.member}
Holders(s, r) == {r, PUBLIC} \cup Groups(s, r)
Superuser(r) == r = Owner
HasDatabasePriv(s, r, p) == Superuser(r) \/ \E h \in Holders(s, r) : <<h, p>> \in s.dbAcl
HasSchemaPriv(s, r, sch, p) ==
    Superuser(r) \/ \E h \in Holders(s, r) : <<sch, h, p>> \in s.schemaAcl
HasTablePriv(s, r, p) == Superuser(r) \/ \E h \in Holders(s, r) : <<h, p>> \in s.tableAcl

\* Role r opens a session on crime_db and names crimes.boston_crimes.
Reach(s, r) ==
    IF r \notin s.roles \/ r \notin s.login THEN "InvalidAuthorizationSpecification"
    ELSE IF ~HasDatabasePriv(s, r, "CONNECT") THEN "InsufficientPrivilege"
    ELSE IF ~HasSchemaPriv(s, r, "crimes", "USAGE") THEN "InsufficientPrivilege"
    ELSE IF ~s.table THEN "UndefinedTable"
    ELSE Ok

\* SELECT * FROM crimes.boston_crimes, as role r.
SelectAs(s, r) ==
    IF Reach(s, r) # Ok THEN Res(s, Reach(s, r))
    ELSE IF ~HasTablePriv(s, r, "SELECT") THEN Res(s, "InsufficientPrivilege")
    ELSE Res(s, Ok)

\* INSERT INTO crimes.boston_crimes VALUES (...), as role r: the literals are
\* converted when the statement is analysed, the privilege is checked when it
\* starts, the primary key when the row goes in.
InsertAs(s, r, line) ==
    IF Reach(s, r) # Ok THEN Res(s, Reach(s, r))
    ELSE IF ~IsInt(line[1]) \/ ~IsInt(line[2]) \/ ~IsDay(s, line[5])
        THEN Res(s, "InvalidTextRepresentation")
    ELSE IF ~HasTablePriv(s, r, "INSERT") THEN Res(s, "InsufficientPrivilege")
    ELSE LET i == InsertRow(s, s.rows, line)
         IN  Res([s EXCEPT !.rows = i.rows], i.err)

\* DELETE FROM crimes.boston_crimes WHERE incident_number = k, as role r.
DeleteAs(s, r, k) ==
    IF Reach(s, r) # Ok THEN Res(s, Reach(s, r))
    ELSE IF ~HasTablePriv(s, r, "DELETE") \/ ~HasTablePriv(s, r, "SELECT")
        THEN Res(s, "InsufficientPrivilege")
    ELSE Res([s EXCEPT !.rows = SelectSeq(@, LAMBDA w : w.incident_number # k)], Ok)

\* ------------------------------------------------------------ the machine
VARIABLES
    srv,      \* the database server
    csv,      \* boston.csv
    conn,     \* the notebook's conn: "none", "open" or "closed"
    fetched,  \* cell 13's fetchall()
    catalog,  \* cell 17's fetchall()
    pc,       \* the next cell of this run, as an index of Cells
    halted,   \* the run was stopped at a cell that raised
    run,      \* the number of this run of the notebook
    log,      \* the statements this run executed, each with what it raised
    nOps,     \* statements issued so far by the login roles
    lastOp,   \* the last of them: who, what, with which values, what it raised
    everDone  \* the statements of the notebook that have succeeded in some run

vars == <<srv, csv, conn, fetched, catalog, pc, halted, run, log, nOps, lastOp, everDone>>

NoOp == [who |-> "", op |-> "", line |-> <<>>, err |-> ""]

Init ==
    /\ srv = CleanServer
    /\ csv \in CsvFiles
    /\ conn = "none"
    /\ fetched = <<>>
    /\ catalog = {}
    /\ pc = 1
    /\ halted = FALSE
    /\ run = 1
    /\ log = <<>>
    /\ nOps = 0
    /\ lastOp = NoOp
    /\ everDone = {}

\* The server with group roles of the notebook's names on it before the
\* notebook is first run there, created by hand and given nothing (cell 15's
\* recorded run found role "readonly" in place).
GroupNames == {"readonly", "readwrite"}
ServerWithRoles(R) == [CleanServer EXCEPT !.roles = @ \cup R]

InitWithRoles ==
    /\ srv \in {ServerWithRoles(R) : R \in SUBSET GroupNames \ {{}}}
    /\ csv \in CsvFiles
    /\ conn = "none"
    /\ fetched = <<>>
    /\ catalog = {}
    /\ pc = 1
    /\ halted = FALSE
    /\ run = 1
    /\ log = <<>>
    /\ nOps = 0
    /\ lastOp = NoOp
    /\ everDone = {}

\* The kernel runs cell Cells[i]: its statements in order up to the first one
\* that raises; the next cell is then the one below it.
RunCellAt(i) ==
    /\ pc = i
    /\ ~halted
    /\ LET r == RunCell(Cells[i].stmts, Ctx(srv, conn, fetched, catalog), csv, <<>>)
       IN  /\ srv' = r.ctx.srv
           /\ conn' = r.ctx.conn
           /\ fetched' = r.ctx.fetched
           /\ catalog' = r.ctx.catalog
           /\ log' = log \o [j \in 1..Len(r.done) |->
                               [cell |-> Cells[i].cell, stmt |-> r.done[j].stmt, err |-> r.done[j].err]]
           /\ everDone' = everDone \cup {r.done[j].stmt : j \in {k \in 1..Len(r.done) : r.done[k].err = Ok}}
    /\ pc' = i + 1
    /\ UNCHANGED <<csv, halted, run, nOps, lastOp>>

Connect == RunCellAt(1)
CreateEnumType == RunCellAt(2)
CreateCrimesTable == RunCellAt(3)
LoadCsv == RunCellAt(4)
VerifyLoad == RunCellAt(5)
RevokePublic == RunCellAt(6)
CreateGroups == RunCellAt(7)
CreateUsers == RunCellAt(8)
VerifyPrivileges == RunCellAt(9)
Disconnect == RunCellAt(10)

Raised == log # <<>> /\ log[Len(log)].err # Ok
Finished == pc = NCells + 1

\* The run ends at the cell that raised (Run All stops at the first error; so
\* does the notebook run as a script): no cell below it is executed.
StopAtError ==
    /\ Raised
    /\ ~halted
    /\ ~Finished
    /\ halted' = TRUE
    /\ UNCHANGED <<srv, csv, conn, fetched, catalog, pc, run, log, nOps, lastOp, everDone>>

\* No run of the notebook is under way: the notebook is the only session
\* while it runs.
Idle == Finished \/ halted

\* The notebook is run again from the top in a fresh kernel, against the
\* server as the earlier runs left it.
RunAgain ==
    /\ Idle
    /\ run < MaxRuns
    /\ run' = run + 1
    /\ pc' = 1
    /\ halted' = FALSE
    /\ conn' = "none"
    /\ fetched' = <<>>
    /\ catalog' = {}
    /\ log' = <<>>
    /\ UNCHANGED <<srv, csv, nOps, lastOp, everDone>>

\* The login roles the server is asked to serve: the two users of cell 16 and
\* a role created later that is given nothing.
Clients == {"data_analyst", "data_scientist", "intern"}

\* CREATE USER intern, by the administrator in a session of their own.
NewLoginRole ==
    /\ Idle
    /\ "intern" \notin srv.roles
    /\ srv' = CreateUser(srv, "intern").srv
    /\ UNCHANGED <<csv, conn, fetched, catalog, pc, halted, run, log, nOps, lastOp, everDone>>

\* A login role issues one statement in a session of its own.
ClientOp(r, op, line, res) ==
    /\ Idle
    /\ r \in srv.roles
    /\ nOps < MaxUserOps
    /\ nOps' = nOps + 1
    /\ srv' = res.srv
    /\ lastOp' = [who |-> r, op |-> op, line |-> line, err |-> res.err]
    /\ UNCHANGED <<csv, conn, fetched, catalog, pc, halted, run, log, everDone>>

UserSelect == \E r \in Clients : ClientOp(r, "SELECT", <<>>, SelectAs(srv, r))
UserInsert == \E r \in Clients, l \in InsertLines : ClientOp(r, "INSERT", l, InsertAs(srv, r, l))
UserDelete ==
    \E r \in Clients, k \in IncidentNumbers :
        ClientOp(r, "DELETE", <<ToString(k)>>, DeleteAs(srv, r, k))

Next ==
    \/ Connect
    \/ CreateEnumType
    \/ CreateCrimesTable
    \/ LoadCsv
    \/ VerifyLoad
    \/ RevokePublic
    \/ CreateGroups
    \/ CreateUsers
    \/ VerifyPrivileges
    \/ Disconnect
    \/ StopAtError
    \/ RunAgain
    \/ NewLoginRole
    \/ UserSelect
    \/ UserInsert
    \/ UserDelete

Spec == Init /\ [][Next]_vars

\* The notebook run on a server that had some of its group roles already.
SpecWithRoles == InitWithRoles /\ [][Next]_vars

\* ================================================================ claims
\* What this run's log says.
Did(stmt) == \E i \in 1..Len(log) : log[i].stmt = stmt /\ log[i].err = Ok
RaisedAt(stmt, e) == \E i \in 1..Len(log) : log[i].stmt = stmt /\ log[i].err = e
AllOk == \A i \in 1..Len(log) : log[i].err = Ok

\* C1: when the provisioning sequence has run on the clean server (this run
\* created the table and its COPY returned) and no login role has issued a
\* statement, boston_crimes holds exactly one row per data line of the CSV,
\* in the file's order, the header line left out, and the fields of line i
\* are in the columns by position; so the row count is the number of data
\* lines.
C1_RowPerDataLine ==
    (Did("create_table") /\ Did("copy") /\ nOps = 0) =>
        /\ Len(srv.rows) = Len(csv) - 1
        /\ \A i \in 1..Len(srv.rows) :
              /\ ToString(srv.rows[i].incident_number) = csv[i + 1][1]
              /\ ToString(srv.rows[i].offense_code) = csv[i + 1][2]
              /\ srv.rows[i].description = csv[i + 1][3]
              /\ srv.rows[i].date = csv[i + 1][4]
              /\ srv.rows[i].day_of_the_week = (IF csv[i + 1][5] = "" THEN NULL ELSE csv[i + 1][5])
              /\ srv.rows[i].latitude = csv[i + 1][6]
              /\ srv.rows[i].longitude = csv[i + 1][7]

\* C1's case: a whole run without an error that loaded a file of MaxRows lines.
C1_Witness ==
    /\ Finished /\ AllOk /\ nOps = 0
    /\ Len(csv) = MaxRows + 1
    /\ Len(srv.rows) = MaxRows

\* The step of cell 12, the one COPY of a run.
CopyStep == pc = 4 /\ pc' = 5
LastRaised == log[Len(log)].err

\* The data lines of the file whose incident_number is that of a row of the
\* table, by line number; input conversion takes every line of the file.
Colliding(file, s) ==
    {i \in 2..Len(file) : IsInt(file[i][1]) /\ ParseInt(file[i][1]) \in Keys(s.rows)}
Converts(file, s) ==
    \A i \in 2..Len(file) : IsInt(file[i][1]) /\ IsInt(file[i][2]) /\ IsDay(s, file[i][5])

\* C2, as the spec states it: whenever an incident_number of the file
\* collides with a row of the table, the COPY raises a uniqueness violation
\* and leaves the server as it was.
C2_Original ==
    [][(CopyStep /\ srv.table /\ Colliding(csv, srv) # {}) =>
          (LastRaised' = "UniqueViolation" /\ srv' = srv)]_vars

\* C2, amended: whenever an incident_number of the file collides with a row
\* of the table, the COPY raises and leaves the server exactly as it was (no
\* row of the file is in the table, the row count is the same); what it
\* raises is a uniqueness violation when input conversion takes every line of
\* the file, and otherwise that or the invalid-input error of a line met
\* before the collision.
C2_AllOrNothing ==
    [][(CopyStep /\ srv.table /\ Colliding(csv, srv) # {}) =>
          /\ srv' = srv
          /\ LastRaised' \in {"UniqueViolation", "InvalidTextRepresentation"}
          /\ Converts(csv, srv) => LastRaised' = "UniqueViolation"]_vars

\* C2's case: the COPY has just raised a uniqueness violation on a file whose
\* first line was not in the table and whose second line was: the first went
\* in and was taken out again.
C2_Witness ==
    /\ pc = 5
    /\ RaisedAt("copy", "UniqueViolation")
    /\ Len(csv) = 3
    /\ ParseInt(csv[2][1]) \notin Keys(srv.rows)
    /\ ParseInt(csv[3][1]) \in Keys(srv.rows)

\* C3: in every state no two rows of boston_crimes have the same
\* incident_number.
C3_UniqueIncidentNumber ==
    \A i, j \in 1..Len(srv.rows) :
        i # j => srv.rows[i].incident_number # srv.rows[j].incident_number

\* C3's case: a COPY has raised a uniqueness violation in a run that began
\* with the table loaded, and a login role has since put a row in.
C3_Witness ==
    /\ RaisedAt("copy", "UniqueViolation")
    /\ RaisedAt("create_table", "DuplicateTable")
    /\ lastOp.op = "INSERT" /\ lastOp.err = Ok
    /\ Len(srv.rows) = 2

\* The privilege types the catalog records for a grantee on boston_crimes.
CatalogOf(g) == {a[2] : a \in {b \in srv.tableAcl : b[1] = g}}
PrivilegeSetupDone == "tables_readwrite" \in everDone

\* C4: once the privilege setup (cell 15) has completed, the catalog records
\* exactly {SELECT} for grantee readonly and exactly {SELECT, INSERT, UPDATE,
\* DELETE} for grantee readwrite, and that is what cell 17's lookup fetches.
C4_ExactGroupPrivileges ==
    PrivilegeSetupDone =>
        /\ CatalogOf("readonly") = {"SELECT"}
        /\ CatalogOf("readwrite") = {"SELECT", "INSERT", "UPDATE", "DELETE"}
        /\ Did("table_privileges") =>
              catalog = {<<"readonly", "SELECT">>, <<"readwrite", "SELECT">>,
                         <<"readwrite", "INSERT">>, <<"readwrite", "UPDATE">>,
                         <<"readwrite", "DELETE">>}

\* C4's case: cell 15 has completed in this run and cell 17 has fetched the
\* five pairs.
C4_Witness ==
    /\ Did("tables_readwrite")
    /\ Did("table_privileges")
    /\ Cardinality(catalog) = 5

\* Provisioning has completed: the groups have their grants and the users
\* their memberships (the table exists from cell 11 on).
ProvisioningDone == PrivilegeSetupDone /\ "member_scientist" \in everDone
WellTyped(line) == line[5] \in {DayLabels[i] : i \in 1..Len(DayLabels)} \cup {""}
WellTypedLines == {x \in InsertLines : WellTyped(x)}
EffectiveTablePrivs(r) == {p \in TablePrivs : HasTablePriv(srv, r, p)}

\* C5: once provisioning has completed, data_analyst may SELECT from
\* boston_crimes and every INSERT of a row by data_analyst is refused with a
\* permission error and leaves the server as it is; data_scientist may
\* SELECT and INSERT (an INSERT of a row goes in, or meets the primary key);
\* each user is in its one group, and its table privileges are exactly
\* those recorded for that group, none being recorded for the user itself or
\* for public.
C5_UserAccess ==
    ProvisioningDone =>
        /\ SelectAs(srv, "data_analyst").err = Ok
        /\ \A l \in WellTypedLines :
              InsertAs(srv, "data_analyst", l) = Res(srv, "InsufficientPrivilege")
        /\ SelectAs(srv, "data_scientist").err = Ok
        /\ \A l \in WellTypedLines :
              LET r == InsertAs(srv, "data_scientist", l)
              IN  IF ParseInt(l[1]) \in Keys(srv.rows)
                      THEN r = Res(srv, "UniqueViolation")
                      ELSE r.err = Ok /\ r.srv.rows = Append(srv.rows, RowOf(l))
        /\ Groups(srv, "data_analyst") = {"readonly"}
        /\ Groups(srv, "data_scientist") = {"readwrite"}
        /\ EffectiveTablePrivs("data_analyst") = CatalogOf("readonly")
        /\ EffectiveTablePrivs("data_scientist") = CatalogOf("readwrite")
        /\ CatalogOf("data_analyst") \cup CatalogOf("data_scientist") \cup CatalogOf(PUBLIC) = {}

\* C5's case: after provisioning data_analyst has tried an INSERT of a row
\* and was refused.
C5_Witness ==
    /\ ProvisioningDone
    /\ lastOp.who = "data_analyst" /\ lastOp.op = "INSERT" /\ WellTyped(lastOp.line)
    /\ lastOp.err = "InsufficientPrivilege"
    /\ srv.rows # <<>>

SevenDays == {"Monday", "Tuesday", "Wednesday", "Thursday", "Friday", "Saturday", "Sunday"}

\* C6: in every state every row's day_of_the_week is one of the seven labels
\* or absent; an INSERT of a row whose day is none of them is refused for
\* every role and changes nothing, and so is the COPY of a file that has
\* such a line.
C6_DayOfWeekIsALabel ==
    /\ \A i \in 1..Len(srv.rows) : srv.rows[i].day_of_the_week \in SevenDays \cup {NULL}
    /\ \A l \in {x \in InsertLines : x[5] \notin SevenDays \cup {""}}, r \in Clients \cup {Owner} :
          LET i == InsertAs(srv, r, l) IN i.err # Ok /\ i.srv = srv
    /\ (\E i \in 2..Len(csv) : csv[i][5] \notin SevenDays \cup {""}) =>
          LET c == CopyFrom(srv, csv) IN c.err # Ok /\ c.srv = srv
    /\ lastOp.op = "INSERT" /\ lastOp.err = Ok => lastOp.line[5] \in SevenDays \cup {""}
    /\ Did("copy") => \A i \in 2..Len(csv) : csv[i][5] \in SevenDays \cup {""}

\* C6's case: data_scientist, who may insert, has tried a row whose day is no
\* label and was refused on that account, after a COPY of a file with such a
\* line was refused too.
C6_Witness ==
    /\ lastOp.who = "data_scientist" /\ lastOp.op = "INSERT"
    /\ lastOp.line[5] \notin SevenDays \cup {""}
    /\ lastOp.err = "InvalidTextRepresentation"
    /\ RaisedAt("copy", "InvalidTextRepresentation")

CreateStmts ==
    {"create_type", "create_table", "create_readonly", "create_readwrite",
     "create_analyst", "create_scientist"}
Duplicate == {"DuplicateObject", "DuplicateTable"}

\* The server holds the provisioned objects: the type, the table, the four
\* roles, with the grants and memberships of cells 15 and 16.
HoldsProvisioned(s) ==
    /\ \E t \in s.types : t.name = "day_of_week"
    /\ s.table
    /\ {"readonly", "readwrite", "data_analyst", "data_scientist"} \subseteq s.roles
    /\ <<"readwrite", "INSERT">> \in s.tableAcl
    /\ <<"data_scientist", "readwrite">> \in s.member

\* A run against such a server from its first cell on has come to its end.
RerunFinished ==
    /\ Finished
    /\ HoldsProvisioned(srv)
    /\ \A c \in CreateStmts : ~Did(c)

\* C7, as the spec states it: a run against a server that holds the
\* provisioned objects fails at each of the six create statements with a
\* duplicate-object error.
C7_Original ==
    RerunFinished => \A c \in CreateStmts : \E e \in Duplicate : RaisedAt(c, e)

\* A cell's step, what it appended to the log, and the entry of a statement
\* that raised.
CellStep(i) == pc = i /\ pc' = i + 1
Appended == SubSeq(log', Len(log) + 1, Len(log'))
Entry(c, stmt, e) == [cell |-> c, stmt |-> stmt, err |-> e]

\* C7, amended: in a run against a server that holds the provisioned
\* objects, every create statement that is executed raises a duplicate-object
\* error and leaves the server (type, table, rows, roles, grants) as it was:
\* CREATE TYPE, CREATE TABLE, CREATE GROUP readonly and CREATE USER
\* data_analyst.  Each of the last two ends its cell, so CREATE GROUP
\* readwrite and CREATE USER data_scientist are not executed.
C7_DuplicateOnRerun ==
    [][HoldsProvisioned(srv) =>
          /\ CellStep(2) => Appended = <<Entry(10, "create_type", "DuplicateObject")>> /\ srv' = srv
          /\ CellStep(3) => Appended = <<Entry(11, "create_table", "DuplicateTable")>> /\ srv' = srv
          /\ CellStep(7) => Appended = <<Entry(15, "create_readonly", "DuplicateObject")>> /\ srv' = srv
          /\ CellStep(8) => Appended = <<Entry(16, "create_analyst", "DuplicateObject")>> /\ srv' = srv]_vars

\* C7's case: such a run has come to its end with the four errors.
C7_Witness ==
    /\ RerunFinished
    /\ RaisedAt("create_type", "DuplicateObject")
    /\ RaisedAt("create_table", "DuplicateTable")
    /\ RaisedAt("create_readonly", "DuplicateObject")
    /\ RaisedAt("create_analyst", "DuplicateObject")
    /\ srv.rows # <<>>

\* C8, as the spec states it: once a statement of a run has raised, no later
\* statement is executed in that run.
C8_Original ==
    \A i \in 1..Len(log) - 1 : log[i].err = Ok

\* C8, amended: a statement that raises ends its own cell: no later
\* statement of that cell is executed in that run.  The cells below it are
\* run all the same, unless the run is stopped at the error, and then nothing
\* more is executed in it.
C8_ErrorEndsTheCell ==
    /\ \A i \in 1..Len(log) - 1 :
          /\ log[i].cell <= log[i + 1].cell
          /\ log[i].err # Ok => log[i].cell < log[i + 1].cell
    /\ halted => Raised

\* C8's case: CREATE GROUP readonly raised, the rest of cell 15 was not
\* executed, and cells 16 to 18 were.
C8_Witness ==
    /\ Finished
    /\ RaisedAt("create_readonly", "DuplicateObject")
    /\ \A i \in 1..Len(log) : log[i].stmt # "create_readwrite"
    /\ Did("table_privileges") /\ Did("close")

Count(stmt) == Cardinality({i \in 1..Len(log) : log[i].stmt = stmt})

\* C9, as the spec states it: a run opens one connection, first of all, and
\* closes it once, last of all, on every path on which the run ends, those
\* on which a statement raised included.
C9_Original ==
    /\ Count("connect") <= 1 /\ Count("close") <= 1
    /\ log # <<>> => log[1].stmt = "connect"
    /\ \A i \in 1..Len(log) : log[i].stmt = "close" => i = Len(log)
    /\ (Finished \/ halted) => conn = "closed"

RevokeDone == "revoke_database" \in everDone
Outsiders(s) ==
    {r \in s.login : ~Superuser(r) /\ Groups(s, r) \cap {"readonly", "readwrite"} = {}}

\* C10: once the revoke step (cell 14) has run, the implicit public role
\* holds no privilege on schema public and none on database crime_db, and
\* a login role (other than the superuser) that is a member of neither group
\* has no CONNECT on crime_db, no USAGE on schema crimes and no table
\* privilege on boston_crimes: its SELECT is refused.
C10_NothingInherited ==
    RevokeDone =>
        /\ \A a \in srv.dbAcl : a[1] # PUBLIC
        /\ \A a \in srv.schemaAcl : ~(a[1] = "public" /\ a[2] = PUBLIC)
        /\ \A r \in Outsiders(srv) :
              /\ ~HasDatabasePriv(srv, r, "CONNECT")
              /\ ~HasSchemaPriv(srv, r, "crimes", "USAGE")
              /\ \A p \in TablePrivs : ~HasTablePriv(srv, r, p)
              /\ SelectAs(srv, r) = Res(srv, "InsufficientPrivilege")

\* C10's case: after provisioning a login role created with no grant and no
\* membership has tried a SELECT and was refused.
C10_Witness ==
    /\ ProvisioningDone /\ RevokeDone
    /\ "intern" \in Outsiders(srv)
    /\ lastOp.who = "intern" /\ lastOp.op = "SELECT"
    /\ lastOp.err = "InsufficientPrivilege"

\* Statement a was executed in this run before every execution of statement
\* b, and the object it creates was there when it returned: it created the
\* object, or found it created by an earlier run.
CreatedBefore(a, b) ==
    \A i \in 1..Len(log) :
        log[i].stmt = b =>
            \E j \in 1..(i - 1) : log[j].stmt = a /\ log[j].err \in {Ok} \cup Duplicate

\* The errors of a statement that names an object that does not exist.
Undefined == {"UndefinedObject", "UndefinedTable"}

GrantsTo(g) == {"connect_" \o g, "usage_" \o g, "tables_" \o g}

\* C11: in every run each statement comes after the statement that creates
\* what it uses: CREATE TYPE before CREATE TABLE; CREATE TABLE before COPY
\* and before both GRANT ... ON ALL TABLES IN SCHEMA crimes, so that a grant
\* that returned is on boston_crimes; CREATE GROUP g before every GRANT to
\* g; CREATE USER u before GRANT g TO u.  No statement finds the object it
\* names missing.
C11_DependenciesFirst ==
    /\ CreatedBefore("create_type", "create_table")
    /\ CreatedBefore("create_table", "copy")
    /\ CreatedBefore("create_table", "tables_readonly")
    /\ CreatedBefore("create_table", "tables_readwrite")
    /\ Did("tables_readonly") => <<"readonly", "SELECT">> \in srv.tableAcl
    /\ Did("tables_readwrite") =>
          {<<"readwrite", p>> : p \in {"SELECT", "INSERT", "DELETE", "UPDATE"}} \subseteq srv.tableAcl
    /\ \A g \in {"readonly", "readwrite"} :
          \A b \in GrantsTo(g) : CreatedBefore("create_" \o g, b)
    /\ CreatedBefore("create_analyst", "member_analyst")
    /\ CreatedBefore("create_scientist", "member_scientist")
    /\ \A i \in 1..Len(log) : log[i].err \notin Undefined

\* C11's case: a run has executed every statement of the sequence, the load,
\* the grants to both groups and both membership grants included.
C11_Witness ==
    /\ Finished
    /\ Did("create_table") /\ Did("copy") /\ srv.rows # <<>>
    /\ Did("tables_readonly") /\ Did("tables_readwrite")
    /\ Did("member_analyst") /\ Did("member_scientist")

\* What the statements of a cell that returned have made of the server, one
\* after the other: a statement that raised adds nothing and takes nothing
\* away.
RECURSIVE Committed(_, _, _)
Committed(x, entries, file) ==
    IF entries = <<>> THEN x.srv
    ELSE Committed(IF Head(entries).err = Ok THEN Execute(Head(entries).stmt, x, file).ctx ELSE x,
                   Tail(entries), file)

\* Role g holds no privilege on the database, on a schema or on the table,
\* and has no member.
NoGrants(s, g) ==
    /\ \A a \in s.dbAcl : a[1] # g
    /\ \A a \in s.schemaAcl : a[2] # g
    /\ \A a \in s.tableAcl : a[1] # g
    /\ \A m \in s.member : m[2] # g

\* CREATE GROUP readwrite raised after CREATE GROUP readonly returned.
ReadwriteFailedAfterReadonly(entries) ==
    entries = <<Entry(15, "create_readonly", Ok), Entry(15, "create_readwrite", "DuplicateObject")>>

\* C12: every statement commits on its own.  When a cell has been run, the
\* server is what the statements that returned made of it, in order, from
\* what the earlier cells left: the statement that raised undid none of it.
\* The type, the table and its rows, the roles and the memberships that were
\* there are still there.  When CREATE GROUP readwrite raises after CREATE
\* GROUP readonly returned, role readonly exists and has no grants.
C12_NoRollback ==
    [][\A i \in 1..NCells : CellStep(i) =>
          /\ srv' = Committed(Ctx(srv, conn, fetched, catalog), Appended, csv)
          /\ srv.types \subseteq srv'.types
          /\ srv.table => srv'.table
          /\ Len(srv.rows) <= Len(srv'.rows) /\ SubSeq(srv'.rows, 1, Len(srv.rows)) = srv.rows
          /\ srv.roles \subseteq srv'.roles
          /\ srv.member \subseteq srv'.member
          /\ ReadwriteFailedAfterReadonly(Appended) =>
                /\ "readonly" \notin srv.roles
                /\ "readonly" \in srv'.roles
                /\ NoGrants(srv', "readonly")]_vars

\* C12's case: in this run CREATE GROUP readwrite raised after CREATE GROUP
\* readonly returned, on a server that holds the type and the table of the
\* cells above; role readonly is there, with no grants.
C12_Witness ==
    /\ Did("create_type") /\ Did("create_table")
    /\ Did("create_readonly")
    /\ RaisedAt("create_readwrite", "DuplicateObject")
    /\ "readonly" \in srv.roles
    /\ NoGrants(srv, "readonly")
    /\ srv.table
====
